---- MODULE Spec2Model ----
(***************************************************************************)
(* The four notebooks of deepspeed_in_aml (01 Create compute, 02 Prepare   *)
(* environment, 03 Prepare data, 04 Train model) as one state machine.     *)
(* A behaviour is one kernel session of one notebook, its code cells       *)
(* executed in document order, against an AzureML workspace whose remote   *)
(* operations (cluster provisioning, environment builds, training runs)    *)
(* progress on their own; the create-compute notebook may be executed      *)
(* again, in a fresh kernel, against the workspace it left.                *)
(***************************************************************************)
EXTENDS Integers, Sequences, FiniteSets, TLC

VARIABLES
    notebook,        \* the notebook this kernel session executes
    config,          \* the dict yaml.safe_load returns for src/config.yml
    pc,              \* the next code cell (or step of a cell) to execute
    ns,              \* the kernel's namespace: Python variable -> value
    raised,          \* exceptions that propagated out of a cell
    printed,         \* lines the cells printed, in order
    calls,           \* calls issued to the remote services, in order
    past,            \* the calls of the earlier executions of the notebook
    computeTargets,  \* workspace: compute targets by name
    environments,    \* workspace: registered environment versions by name
    builds,          \* workspace: environment image builds
    localDisk,       \* files under the notebook's working directory
    datastore,       \* workspace: files of the default datastore
    datasets,        \* workspace: registered dataset versions
    runs,            \* workspace: runs of the experiment
    models           \* workspace: registered model versions

local     == <<notebook, config, pc, ns, raised, printed, calls, past,
               localDisk>>
workspace == <<computeTargets, environments, builds, datastore, datasets,
               runs, models>>
vars      == <<local, workspace>>

-----------------------------------------------------------------------------
(* src/config.yml *)

ConfigYml ==
    [ model                  |-> "distilbert-base-uncased",
      task                   |-> "cola",
      task_dataset_version   |-> 1,
      experiment             |-> "training-quickstart",
      description            |-> "distilbert for linguistic acceptability",
      metric                 |-> "matthews_correlation",
      val_key                |-> "validation",
      data_dir               |-> "data/glue/cola",
      source_directory       |-> "src",
      environment            |-> "deepspeed-transformers",
      environment_dockerfile |-> "src/dockerfile",
      training_command       |-> "python train.py",
      compute_target         |-> "gpu-K80-1",
      compute_size           |-> "STANDARD_NC4AS_T4_V3",
      compute_node_count     |-> 2,
      model_output_dir       |-> "outputs/model",
      registered_model_name  |-> "distilbert-base-uncased-cola",
      pytorch_configuration  |-> [node_count |-> 2, process_count |-> 2],
      training_args          |->
          [ output_dir                  |-> "outputs",
            overwrite_output_dir        |-> TRUE,
            do_eval                     |-> TRUE,
            evaluation_strategy         |-> "epoch",
            num_train_epochs            |-> 3,
            per_device_train_batch_size |-> 16,
            per_device_eval_batch_size  |-> 16,
            disable_tqdm                |-> TRUE,
            report_to                   |-> "azure_ml",
            deepspeed                   |-> "deepspeed_config.json" ] ]

(* The file is meant to be customised for a new job; one such edit. *)
CustomConfig ==
    [ ConfigYml EXCEPT
        !.compute_size = "Standard_NC6",
        !.compute_node_count = 4,
        !.pytorch_configuration = [node_count |-> 4, process_count |-> 4],
        !.training_args.num_train_epochs = 2,
        !.training_args.per_device_train_batch_size = 128 ]

Configs == {ConfigYml, CustomConfig}

-----------------------------------------------------------------------------
(* The notebooks and their code cells, in document order.  The cells that  *)
(* only import libraries, load src/config.yml and connect to the workspace *)
(* (and its default datastore, and the experiment) have run when a         *)
(* behaviour starts.                                                       *)

CreateCompute      == "01 Create compute"
PrepareEnvironment == "02 Prepare environment"
PrepareData        == "03 Prepare data"
TrainModel         == "04 Train model"
TrainModelAmltmp   == "04 train model.ipynb.amltmp"

Notebooks ==
    {CreateCompute, PrepareEnvironment, PrepareData, TrainModel,
     TrainModelAmltmp}

(* The metric cell ahead of the status cell. *)
TrainCells_MetricFirst ==
    <<"6a34ff48", "fcb9a50f", "668a717a", "4930a3eb", "9e96dd01", "a1455551",
      "1cbf30c4", "2f80bd5b">>

TrainCells ==
    <<"6a34ff48", "fcb9a50f", "668a717a", "9e96dd01", "4930a3eb", "a1455551",
      "1cbf30c4", "2f80bd5b">>

Cells(nb) ==
    CASE nb = CreateCompute      -> <<"1a1c3647">>
      [] nb = PrepareEnvironment -> <<"f134ed2c", "c02488be", "00fcb977",
                                      "48a444a3", "2055c04e", "42cac26b",
                                      "cd378a96", "54752039">>
      [] nb = PrepareData        -> <<"8fe94083", "fabfa0e2", "aa983db6",
                                      "43537570", "5f51ff26">>
      [] nb = TrainModel         -> TrainCells
      [] nb = TrainModelAmltmp   -> TrainCells

(* The cell that follows `cell` in the notebook. *)
After(cell) ==
    LET cs == Cells(notebook)
        i  == CHOOSE k \in 1..Len(cs) : cs[k] = cell
    IN  IF i < Len(cs) THEN cs[i + 1] ELSE "done"

At(cell) == pc = cell

(* The kernel's namespace. *)
NoNames == [n \in {} |-> TRUE]

Bound(name) == name \in DOMAIN ns

Bind(space, name, value) ==
    [n \in DOMAIN space \cup {name} |-> IF n = name THEN value ELSE space[n]]

(* A cell whose exception is not caught ends there with a traceback.  A    *)
(* "Run All" stops at it; a person stepping through the cells may go on to *)
(* the next one.  "done" is kept for a last cell that completed.           *)
Raise(cell, exc) ==
    /\ raised' = raised \cup {[cell |-> cell, exc |-> exc]}
    /\ pc' \in {"halted"} \cup (IF After(cell) = "done" THEN {}
                                ELSE {After(cell)})

Raised(cell) == \E r \in raised : r.cell = cell

-----------------------------------------------------------------------------
(* Workspace: compute targets *)

OtherCluster == "cpu-cluster"

NoCluster == [absent |-> TRUE]

ClusterNames == {c.compute_target : c \in Configs} \cup {OtherCluster}

VmSizes == {c.compute_size : c \in Configs}

NodeCounts == {c.compute_node_count : c \in Configs}

ComputeRecord(name, vm_size, max_nodes, state) ==
    [name |-> name, vm_size |-> vm_size, max_nodes |-> max_nodes,
     provisioning_state |-> state]

(* Clusters a workspace may hold under `name` before the notebook runs:    *)
(* created in the Studio interface or by an earlier session, of any size.  *)
ExistingClusters(name) ==
    {ComputeRecord(name, s, n, st) :
        s \in VmSizes, n \in NodeCounts, st \in {"Creating", "Succeeded"}}

Provisioning(name) ==
    /\ computeTargets[name] # NoCluster
    /\ computeTargets[name].provisioning_state = "Creating"

CallsOf(api) == {i \in 1..Len(calls) : calls[i].api = api}

(* A cluster this session asked for is still being provisioned. *)
ClusterInProgress ==
    \E i \in CallsOf("ComputeTarget.create") :
        calls[i].result = "returned" /\ Provisioning(calls[i].arg.name)

-----------------------------------------------------------------------------
(* Workspace: environments and their image builds *)

DatasetsEnvironment == "deepspeed-transformers-datasets"

EnvironmentNames == {c.environment : c \in Configs} \cup {DatasetsEnvironment}

BuildInProgressStatuses == {"GettingOrProvisioningACR", "Running"}

BuildStatuses == BuildInProgressStatuses \cup {"Succeeded", "Failed"}

(* Environment.register: the definition becomes the next version of its    *)
(* name, unless the latest version already has this definition.            *)
RegisteredVersions(envs, name, definition) ==
    IF Len(envs[name]) > 0 /\ envs[name][Len(envs[name])] = definition
    THEN envs[name]
    ELSE Append(envs[name], definition)

BuildInProgress ==
    \E i \in CallsOf("Environment.build") :
        builds[calls[i].result].status \in BuildInProgressStatuses

-----------------------------------------------------------------------------
(* Workspace: runs and registered models *)

RunInProgressStatuses == {"Queued", "Running"}

RunStatuses == RunInProgressStatuses \cup {"Completed", "Failed"}

RunInProgress ==
    \E i \in CallsOf("Experiment.submit") :
        runs[calls[i].result].status \in RunInProgressStatuses

-----------------------------------------------------------------------------
(* Calls to the remote services *)

(* A remote operation started by this session has not finished. *)
InProgress == ClusterInProgress \/ BuildInProgress \/ RunInProgress

(* The record of one call: the API, its arguments, what it returned (or    *)
(* that it raised), and whether an operation started earlier by this       *)
(* session was still in progress when the call was issued.                 *)
Call(api, arg, result) ==
    [api |-> api, arg |-> arg, result |-> result, busy |-> InProgress]

-----------------------------------------------------------------------------
(* 01 Create compute, cell 1a1c3647: find the cluster or create it, then   *)
(* wait for it.  The cell is three steps: the lookup, the except branch,   *)
(* and the blocking wait.                                                  *)

(* A lookup that never finds the cluster. *)
LookupOutcomes_NeverFound(name) == {"ComputeTargetException"}

(* ComputeTarget(workspace, name): the cluster of that name, or            *)
(* ComputeTargetException when the workspace has none; any other failure   *)
(* of the call (credentials, network) is another exception.                *)
LookupOutcomes(name) ==
    (IF computeTargets[name] # NoCluster
     THEN {"found"} ELSE {"ComputeTargetException"})
    \cup {"OtherException"}

(* `except Exception:` in place of the handler below. *)
HandlesInExcept_AnyException(outcome) ==
    outcome \in {"ComputeTargetException", "OtherException"}

(* A bare `except:` in place of the handler below. *)
HandlesInExcept_Bare(outcome) == TRUE

(* try: ... except azureml.core.compute_target.ComputeTargetException: *)
HandlesInExcept(outcome) == outcome = "ComputeTargetException"

(* GPUs of one computer of a VM size: both sizes config.yml names are of   *)
(* one GPU per computer.                                                   *)
GpusPerComputer(vm_size) ==
    CASE vm_size = "STANDARD_NC4AS_T4_V3" -> 1
      [] vm_size = "Standard_NC6"         -> 1

(* The name the cell looks up and creates. *)
ClusterName == config["compute_target"]

ComputeLookup ==
    /\ At("1a1c3647")
    /\ \E outcome \in LookupOutcomes(ClusterName) :
          /\ calls' = Append(calls, Call("ComputeTarget", ClusterName, outcome))
          /\ IF outcome = "found"
             THEN /\ ns' = Bind(ns, "cluster", [name |-> ClusterName])
                  /\ printed' =
                         Append(printed, "Found existing compute cluster")
                  /\ pc' = "1a1c3647:wait"
                  /\ UNCHANGED raised
             ELSE IF HandlesInExcept(outcome)
             THEN /\ pc' = "1a1c3647:except"
                  /\ UNCHANGED <<ns, printed, raised>>
             ELSE /\ Raise("1a1c3647", outcome)
                  /\ UNCHANGED <<ns, printed>>
    /\ UNCHANGED <<notebook, config, past, localDisk, workspace>>

(* The configuration with the size the comment of config.yml names       *)
(* instead of the configured one.                                          *)
ProvisioningConfiguration_FixedSize ==
    [vm_size   |-> "Standard_NC6",
     max_nodes |-> config["compute_node_count"]]

(* The configuration with one node instead of the configured count. *)
ProvisioningConfiguration_OneNode ==
    [vm_size   |-> config["compute_size"],
     max_nodes |-> 1]

(* AmlCompute.provisioning_configuration(vm_size=..., max_nodes=...) *)
ProvisioningConfiguration ==
    [vm_size   |-> config["compute_size"],
     max_nodes |-> config["compute_node_count"]]

(* cluster = ComputeTarget.create(workspace, name, compute_config); an     *)
(* exception of the create call is not caught.                             *)
ComputeCreate ==
    /\ pc = "1a1c3647:except"
    /\ LET compute_config == ProvisioningConfiguration
           arg == [name      |-> ClusterName,
                   vm_size   |-> compute_config.vm_size,
                   max_nodes |-> compute_config.max_nodes]
       IN  \/ /\ calls' = Append(calls,
                                 Call("ComputeTarget.create", arg, "returned"))
              /\ computeTargets' =
                    [computeTargets EXCEPT ![arg.name] =
                        ComputeRecord(arg.name, arg.vm_size, arg.max_nodes,
                                      "Creating")]
              /\ ns' = Bind(ns, "cluster", [name |-> arg.name])
              /\ pc' = "1a1c3647:wait"
              /\ UNCHANGED raised
           \/ /\ calls' = Append(calls,
                                 Call("ComputeTarget.create", arg, "raised"))
              /\ Raise("1a1c3647", "ComputeTargetException")
              /\ UNCHANGED <<computeTargets, ns>>
    /\ UNCHANGED <<notebook, config, past,
                   printed, localDisk, environments, builds,
                   datastore, datasets, runs, models>>

(* A wait that returns at once. *)
WaitReturns_AtOnce(name) == TRUE

(* wait_for_completion returns once the cluster has left its provisioning  *)
(* state.                                                                  *)
WaitReturns(name) == ~Provisioning(name)

(* The wait executed twice. *)
ComputeWait_Twice ==
    /\ pc = "1a1c3647:wait"
    /\ WaitReturns(ns["cluster"].name)
    /\ LET wait == Call("wait_for_completion", ns["cluster"].name,
                        computeTargets[ns["cluster"].name].provisioning_state)
       IN  calls' = calls \o <<wait, wait>>
    /\ printed' = Append(printed,
                         computeTargets[ns["cluster"].name].provisioning_state)
    /\ pc' = After("1a1c3647")
    /\ UNCHANGED <<notebook, config, past, ns, raised, localDisk, workspace>>

(* cluster.wait_for_completion(show_output=True) *)
ComputeWait ==
    /\ pc = "1a1c3647:wait"
    /\ WaitReturns(ns["cluster"].name)
    /\ calls' = Append(calls,
                       Call("wait_for_completion", ns["cluster"].name,
                            computeTargets[ns["cluster"].name]
                                .provisioning_state))
    /\ printed' = Append(printed,
                         computeTargets[ns["cluster"].name].provisioning_state)
    /\ pc' = After("1a1c3647")
    /\ UNCHANGED <<notebook, config, past, ns, raised, localDisk, workspace>>

(* The service finishes provisioning a cluster. *)
ProvisioningFinishes ==
    /\ \E name \in ClusterNames, st \in {"Succeeded", "Failed"} :
          /\ Provisioning(name)
          /\ computeTargets' =
                 [computeTargets EXCEPT ![name].provisioning_state = st]
    /\ UNCHANGED <<local, environments, builds, datastore, datasets, runs,
                   models>>

-----------------------------------------------------------------------------
(* str() of a non-negative integer *)

Digit(d) ==
    CASE d = 0 -> "0" [] d = 1 -> "1" [] d = 2 -> "2" [] d = 3 -> "3"
      [] d = 4 -> "4" [] d = 5 -> "5" [] d = 6 -> "6" [] d = 7 -> "7"
      [] d = 8 -> "8" [] d = 9 -> "9"

RECURSIVE str(_)
str(n) == IF n < 10 THEN Digit(n) ELSE str(n \div 10) \o Digit(n % 10)

-----------------------------------------------------------------------------
(* 02 Prepare environment *)

WorkspaceName == "xcs224"

(* workspace.get_details()["containerRegistry"], as its "/"-separated      *)
(* segments.                                                               *)
ContainerRegistry ==
    <<"subscriptions", "f3692ca7", "resourceGroups", "eyast-rg", "providers",
      "Microsoft.ContainerRegistry", "registries", "xcs224acr">>

PythonSection ==
    [user_managed_dependencies |-> TRUE,
     interpreter_path          |-> "/opt/miniconda/bin/python"]

(* Environment.from_dockerfile(name, dockerfile=Path(...).read_text()) *)
FromDockerfile(path) ==
    [docker |-> [dockerfile |-> path, base_image |-> "None"],
     python |-> PythonSection]

(* The second environment defined from the Dockerfile again. *)
FromBaseImage_Dockerfile(image) ==
    [docker |-> [dockerfile |-> config["environment_dockerfile"],
                 base_image |-> "None"],
     python |-> PythonSection]

(* Environment(name) with docker.base_image set *)
FromBaseImage(image) ==
    [docker |-> [dockerfile |-> "None", base_image |-> image],
     python |-> PythonSection]

(* environment = environment.register(workspace) *)
Register(name, definition) ==
    /\ environments' =
           [environments EXCEPT ![name] =
               RegisteredVersions(environments, name, definition)]

VersionOf(envs, name, definition) ==
    CHOOSE v \in 1..Len(envs[name]) :
        /\ envs[name][v] = definition
        /\ \A w \in 1..Len(envs[name]) : envs[name][w] = definition => w <= v

(* environment.build(workspace): starts an image build and returns its     *)
(* handle without waiting for it.                                          *)
StartedBuild(name, version) ==
    [name |-> name, version |-> version, status |-> "GettingOrProvisioningACR"]

(* A register that also starts the image build. *)
RegisterCell_Builds ==
    /\ At("f134ed2c")
    /\ LET name       == config["environment"]
           definition == FromDockerfile(config["environment_dockerfile"])
           registered == RegisteredVersions(environments, name, definition)
           version    == VersionOf([environments EXCEPT ![name] = registered],
                                   name, definition)
       IN  /\ Register(name, definition)
           /\ builds' = Append(builds, StartedBuild(name, version))
           /\ ns' = Bind(ns, "environment",
                         [name |-> name, version |-> version])
           /\ calls' = Append(calls,
                              Call("Environment.register",
                                   [name |-> name, definition |-> definition],
                                   version))
           /\ printed' = Append(printed,
                                name \o " version " \o str(version)
                                     \o " registered in " \o WorkspaceName)
    /\ pc' = After("f134ed2c")
    /\ UNCHANGED <<notebook, config, past, raised, localDisk, computeTargets,
                   datastore, datasets, runs, models>>

(* Cell f134ed2c: register the environment built from the Dockerfile. *)
RegisterCell ==
    /\ At("f134ed2c")
    /\ LET name       == config["environment"]
           definition == FromDockerfile(config["environment_dockerfile"])
           registered == RegisteredVersions(environments, name, definition)
           version    == VersionOf([environments EXCEPT ![name] = registered],
                                   name, definition)
       IN  /\ Register(name, definition)
           /\ ns' = Bind(ns, "environment",
                         [name |-> name, version |-> version])
           /\ calls' = Append(calls,
                              Call("Environment.register",
                                   [name |-> name, definition |-> definition],
                                   version))
           /\ printed' = Append(printed,
                                name \o " version " \o str(version)
                                     \o " registered in " \o WorkspaceName)
    /\ pc' = After("f134ed2c")
    /\ UNCHANGED <<notebook, config, past, raised, localDisk, computeTargets,
                   builds, datastore, datasets, runs, models>>

(* Cell c02488be: build = environment.build(workspace); print its status. *)
BuildCell ==
    /\ At("c02488be")
    /\ IF Bound("environment")
       THEN LET started == StartedBuild(ns["environment"].name,
                                        ns["environment"].version)
                id      == Len(builds) + 1
            IN  /\ builds' = Append(builds, started)
                /\ ns' = Bind(ns, "build", id)
                /\ calls' = Append(calls,
                                   Call("Environment.build",
                                        ns["environment"], id))
                /\ printed' = Append(printed,
                                     "Current status is " \o started.status
                                         \o ".")
                /\ pc' = After("c02488be")
                /\ UNCHANGED raised
       ELSE /\ Raise("c02488be", "NameError")
            /\ UNCHANGED <<builds, ns, calls, printed>>
    /\ UNCHANGED <<notebook, config, past,
                   localDisk, computeTargets, environments,
                   datastore, datasets, runs, models>>

(* The status cell with a retry: a failed build is started again. *)
BuildStatusCell_Retry ==
    /\ At("00fcb977")
    /\ Bound("build")
    /\ calls' = calls \o
           <<Call("build.status", ns["build"], builds[ns["build"]].status)>> \o
           (IF builds[ns["build"]].status = "Failed"
            THEN <<Call("Environment.build", ns["environment"],
                        Len(builds) + 1)>>
            ELSE <<>>)
    /\ builds' = IF builds[ns["build"]].status = "Failed"
                 THEN Append(builds, StartedBuild(ns["environment"].name,
                                                  ns["environment"].version))
                 ELSE builds
    /\ printed' = Append(printed,
                         "Current status is "
                             \o builds[ns["build"]].status \o ".")
    /\ pc' = After("00fcb977")
    /\ UNCHANGED <<notebook, config, past,
                   ns, raised, localDisk, computeTargets,
                   environments, datastore, datasets, runs, models>>

(* Cell 00fcb977: print build.status (and the log URL), read once. *)
BuildStatusCell ==
    /\ At("00fcb977")
    /\ IF Bound("build")
       THEN /\ calls' = Append(calls,
                               Call("build.status", ns["build"],
                                    builds[ns["build"]].status))
            /\ printed' = Append(printed,
                                 "Current status is "
                                     \o builds[ns["build"]].status \o ".")
            /\ pc' = After("00fcb977")
            /\ UNCHANGED raised
       ELSE /\ Raise("00fcb977", "NameError")
            /\ UNCHANGED <<calls, printed>>
    /\ UNCHANGED <<notebook, config, past, ns, localDisk, workspace>>

(* Cell 48a444a3: acr_name and container_name. *)
ContainerName(acr_name) ==
    acr_name \o ".azurecr.io/" \o config["experiment"] \o "/"
             \o config["environment"]

AcrNamesCell ==
    /\ At("48a444a3")
    /\ LET acr_name == ContainerRegistry[Len(ContainerRegistry)]
       IN  /\ ns' = Bind(Bind(ns, "acr_name", acr_name),
                         "container_name", ContainerName(acr_name))
           /\ calls' = Append(calls,
                              Call("Workspace.get_details", WorkspaceName,
                                   "returned"))
    /\ pc' = After("48a444a3")
    /\ UNCHANGED <<notebook, config, past,
                   raised, printed, localDisk, workspace>>

RECURSIVE PrintAll(_, _)
PrintAll(out, lines) ==
    IF lines = <<>> THEN out
    ELSE PrintAll(Append(out, Head(lines)), Tail(lines))

(* The shell's command-substitution quote (U+0060), which a string of     *)
(* this language cannot hold.                                              *)
Backquote == "<U+0060>"

(* Cell 2055c04e: cmds for the local docker build; print each. *)
LocalBuildCommands ==
    <<"docker build " \o config["source_directory"] \o " .",
      "LATEST=" \o Backquote
          \o "docker images --format \"{{.ID}}\" | head -n 1" \o Backquote,
      "docker tag $LATEST " \o ns["container_name"]>>

LocalBuildCell ==
    /\ At("2055c04e")
    /\ IF Bound("container_name")
       THEN /\ ns' = Bind(ns, "cmds", LocalBuildCommands)
            /\ printed' = PrintAll(printed, LocalBuildCommands)
            /\ pc' = After("2055c04e")
            /\ UNCHANGED raised
       ELSE /\ Raise("2055c04e", "NameError")
            /\ UNCHANGED <<ns, printed>>
    /\ UNCHANGED <<notebook, config, past, calls, localDisk, workspace>>

(* Cell 42cac26b: print the command that drops into the container. *)
DockerRunCell ==
    /\ At("42cac26b")
    /\ IF Bound("container_name")
       THEN /\ printed' = Append(printed,
                                 "docker run -it " \o ns["container_name"]
                                     \o " bash")
            /\ pc' = After("42cac26b")
            /\ UNCHANGED raised
       ELSE /\ Raise("42cac26b", "NameError")
            /\ UNCHANGED printed
    /\ UNCHANGED <<notebook, config, past, ns, calls, localDisk, workspace>>

(* Cell cd378a96: cmds for the push to ACR; the loop prints                *)
(* docker_build_commands, a name no cell of the notebook binds.            *)
AcrUploadCommands ==
    <<"az login",
      "az acr login --name " \o ns["acr_name"],
      "docker push " \o ns["container_name"] \o ":latest">>

AcrUploadCell ==
    /\ At("cd378a96")
    /\ IF ~(Bound("acr_name") /\ Bound("container_name"))
       THEN /\ Raise("cd378a96", "NameError")
            /\ UNCHANGED <<ns, printed>>
       ELSE IF ~Bound("docker_build_commands")
       THEN /\ ns' = Bind(ns, "cmds", AcrUploadCommands)
            /\ Raise("cd378a96", "NameError")
            /\ UNCHANGED printed
       ELSE /\ ns' = Bind(ns, "cmds", AcrUploadCommands)
            /\ printed' = PrintAll(printed, ns["docker_build_commands"])
            /\ pc' = After("cd378a96")
            /\ UNCHANGED raised
    /\ UNCHANGED <<notebook, config, past, calls, localDisk, workspace>>

(* Cell 54752039: register an environment of the same name on the ACR      *)
(* image and build it; the build handle is not kept.                       *)
AcrEnvironmentCell ==
    /\ At("54752039")
    /\ IF Bound("container_name")
       THEN LET name       == config["environment"]
                definition == FromBaseImage(ns["container_name"] \o ":latest")
                registered == RegisteredVersions(environments, name,
                                                 definition)
                version    == VersionOf(
                                  [environments EXCEPT ![name] = registered],
                                  name, definition)
                env        == [name |-> name, version |-> version]
                id         == Len(builds) + 1
            IN  /\ Register(name, definition)
                /\ ns' = Bind(ns, "environment", env)
                /\ builds' = Append(builds, StartedBuild(name, version))
                /\ calls' =
                       calls \o
                       <<Call("Environment.register",
                              [name |-> name, definition |-> definition],
                              version),
                         Call("Environment.build", env, id)>>
                /\ pc' = After("54752039")
                /\ UNCHANGED raised
       ELSE /\ Raise("54752039", "NameError")
            /\ UNCHANGED <<environments, ns, builds, calls>>
    /\ UNCHANGED <<notebook, config, past, printed, localDisk, computeTargets,
                   datastore, datasets, runs, models>>

(* The service advances an image build. *)
BuildAdvances ==
    /\ \E id \in 1..Len(builds) :
          \/ /\ builds[id].status = "GettingOrProvisioningACR"
             /\ \E st \in {"Running", "Failed"} :
                   builds' = [builds EXCEPT ![id].status = st]
          \/ /\ builds[id].status = "Running"
             /\ \E st \in {"Succeeded", "Failed"} :
                   builds' = [builds EXCEPT ![id].status = st]
    /\ UNCHANGED <<local, computeTargets, environments, datastore, datasets,
                   runs, models>>

-----------------------------------------------------------------------------
(* 03 Prepare data *)

(* Files save_to_disk writes for the dataset, and a file only an earlier   *)
(* save wrote.                                                             *)
DataFiles == {"dataset_dict.json", "train/data-00000-of-00001.arrow"}

StaleFile == "train/cache-3f1c.arrow"

OtherPath == "data/glue/raw"

DataPaths == {c.data_dir : c \in Configs} \cup {OtherPath}

NoFiles == [f \in {} |-> TRUE]

(* What a file of a saved dataset holds. *)
Content(data, generation) ==
    [task |-> data.task, form |-> data.form, tokenizer |-> data.tokenizer,
     generation |-> generation]

(* Data an earlier session of this notebook tokenized, saved and uploaded. *)
EarlierData ==
    [f \in DataFiles \cup {StaleFile} |->
        Content([task |-> "cola", form |-> "tokenized",
                 tokenizer |-> "bert-base-cased"], "earlier")]

WriteFiles(dir, files) ==
    [f \in DOMAIN dir \cup DOMAIN files |->
        IF f \in DOMAIN files THEN files[f] ELSE dir[f]]

(* datasets.load_dataset("glue", task) *)
LoadDataset(task) == [task |-> task, form |-> "raw", tokenizer |-> "None"]

(* data.map(tokenizer_function, batched=True), the tokenizer being         *)
(* AutoTokenizer.from_pretrained(model)                                    *)
Tokenize(data, model) ==
    [task |-> data.task, form |-> "tokenized", tokenizer |-> model]

(* Cell 8fe94083: download the task's data. *)
LoadCell ==
    /\ At("8fe94083")
    /\ \/ /\ ns' = Bind(ns, "data", LoadDataset(config["task"]))
          /\ calls' = Append(calls,
                             Call("load_dataset", config["task"], "returned"))
          /\ pc' = After("8fe94083")
          /\ UNCHANGED raised
       \/ /\ calls' = Append(calls,
                             Call("load_dataset", config["task"], "raised"))
          /\ Raise("8fe94083", "ConnectionError")
          /\ UNCHANGED ns
    /\ UNCHANGED <<notebook, config, past, printed, localDisk, workspace>>

(* data.save_to_disk(path) *)
SaveToDisk(disk, path, data) ==
    [disk EXCEPT ![path] =
        WriteFiles(@, [f \in DataFiles |-> Content(data, "this session")])]

(* Cell fabfa0e2: tokenize for config['model'] and save to data_dir. *)
TokenizeCell ==
    /\ At("fabfa0e2")
    /\ IF Bound("data")
       THEN LET data == Tokenize(ns["data"], config["model"])
            IN  /\ ns' = Bind(Bind(ns, "tokenizer", config["model"]),
                              "data", data)
                /\ localDisk' = SaveToDisk(localDisk, config["data_dir"], data)
                /\ calls' = calls \o
                       <<Call("Dataset.map", config["model"], "returned"),
                         Call("save_to_disk", config["data_dir"], "returned")>>
                /\ pc' = After("fabfa0e2")
                /\ UNCHANGED raised
       ELSE /\ ns' = Bind(ns, "tokenizer", config["model"])
            /\ Raise("fabfa0e2", "NameError")
            /\ UNCHANGED <<localDisk, calls>>
    /\ UNCHANGED <<notebook, config, past, printed, workspace>>

(* An upload with overwrite=False: a file already at target_path is kept. *)
Upload_KeepExisting(store, src_dir, target_path) ==
    [store EXCEPT ![target_path] =
        [f \in DOMAIN @ \cup DOMAIN localDisk[src_dir] |->
            IF f \in DOMAIN @ THEN @[f] ELSE localDisk[src_dir][f]]]

(* datastore.upload(src_dir, target_path, overwrite=True): every file      *)
(* under src_dir is written to target_path, replacing a file of its name.  *)
Upload(store, src_dir, target_path) ==
    [store EXCEPT ![target_path] = WriteFiles(@, localDisk[src_dir])]

UploadTarget == config["data_dir"]

(* Cell aa983db6: upload data_dir to the datastore. *)
UploadCell ==
    /\ At("aa983db6")
    /\ LET arg == [src_dir |-> config["data_dir"],
                   target_path |-> UploadTarget, overwrite |-> TRUE]
       IN  IF localDisk[arg.src_dir] # NoFiles
           THEN /\ datastore' = Upload(datastore, arg.src_dir, arg.target_path)
                /\ calls' = Append(calls,
                                   Call("Datastore.upload", arg, "returned"))
                /\ pc' = After("aa983db6")
                /\ UNCHANGED raised
           ELSE /\ calls' = Append(calls,
                                   Call("Datastore.upload", arg, "raised"))
                /\ Raise("aa983db6", "UserErrorException")
                /\ UNCHANGED datastore
    /\ UNCHANGED <<notebook, config, past,
                   ns, printed, localDisk, computeTargets,
                   environments, builds, datasets, runs, models>>

(* A registration of another path than the uploaded one. *)
RegisterPath_Other == OtherPath

(* path = datastore.path(config['data_dir']) *)
RegisterPath == config["data_dir"]

(* A registration that replaces the versions the name already has. *)
RegisterVersion_Replace(versions, entry) ==
    <<[entry EXCEPT !.version = 1]>>

(* amldataset.register(..., create_new_version=True): the dataset becomes  *)
(* the next version of its name, after the versions the name already has.  *)
RegisterVersion(versions, entry) ==
    Append(versions, [entry EXCEPT !.version = Len(versions) + 1])

(* Cell 43537570: register the uploaded files as a dataset.                *)
(* Dataset.File.from_files(path) validates that the path holds data;       *)
(* amldataset.register(workspace, name, description, tags, True)           *)
RegisterDatasetCell ==
    /\ At("43537570")
    /\ LET name    == config["task"]
           desc    == "Glue dataset for " \o config["task"]
                          \o ", tokenized for " \o config["model"]
           tags    == [task |-> config["task"], model |-> config["model"]]
           path    == RegisterPath
           entry   == [name |-> name, description |-> desc, tags |-> tags,
                       path |-> path, version |-> 0]
           after   == RegisterVersion(datasets[name], entry)
       IN  IF datastore[path] # NoFiles
           THEN /\ datasets' = [datasets EXCEPT ![name] = after]
                /\ ns' = Bind(ns, "amldataset", after[Len(after)])
                /\ calls' = Append(calls,
                                   Call("Dataset.register",
                                        [name |-> name, path |-> path,
                                         tags |-> tags,
                                         create_new_version |-> TRUE],
                                        after[Len(after)].version))
                /\ pc' = After("43537570")
                /\ UNCHANGED raised
           ELSE /\ calls' = Append(calls,
                                   Call("Dataset.File.from_files", path,
                                        "raised"))
                /\ Raise("43537570", "DatasetValidationError")
                /\ UNCHANGED <<datasets, ns>>
    /\ UNCHANGED <<notebook, config, past, printed, localDisk, computeTargets,
                   environments, builds, datastore, runs, models>>

(* Cell 5f51ff26: amldataset.version *)
DatasetVersionCell ==
    /\ At("5f51ff26")
    /\ IF Bound("amldataset")
       THEN /\ printed' = Append(printed, str(ns["amldataset"].version))
            /\ pc' = After("5f51ff26")
            /\ UNCHANGED raised
       ELSE /\ Raise("5f51ff26", "NameError")
            /\ UNCHANGED printed
    /\ UNCHANGED <<notebook, config, past, ns, calls, localDisk, workspace>>

-----------------------------------------------------------------------------
(* 04 Train model (and its .amltmp copy, which differs in cell 6a34ff48) *)

ModelDir == "model"

(* The name cell 6a34ff48 fetches the environment under: config.yml's in   *)
(* the notebook, a literal env_name in the .amltmp copy.                   *)
EnvironmentName ==
    IF notebook = TrainModelAmltmp
    THEN DatasetsEnvironment
    ELSE config["environment"]

(* Cell 6a34ff48: environment = Environment.get(workspace, name): the      *)
(* latest registered version of that name.                                 *)
GetEnvironmentCell ==
    /\ At("6a34ff48")
    /\ LET name == EnvironmentName
       IN  IF Len(environments[name]) > 0
           THEN /\ ns' = Bind(ns, "environment",
                              [name    |-> name,
                               version |-> Len(environments[name])])
                /\ calls' = Append(calls,
                                   Call("Environment.get", name, "returned"))
                /\ pc' = After("6a34ff48")
                /\ UNCHANGED raised
           ELSE /\ calls' = Append(calls,
                                   Call("Environment.get", name, "raised"))
                /\ Raise("6a34ff48", "Exception")
                /\ UNCHANGED ns
    /\ UNCHANGED <<notebook, config, past, printed, localDisk, workspace>>

(* One process per job instead of the configured count. *)
PyTorchConfiguration_OneProcess(kwargs) ==
    [k \in DOMAIN kwargs |-> IF k = "process_count" THEN 1 ELSE kwargs[k]]

(* A configuration that defaults the node count. *)
PyTorchConfiguration_NodeDefault(kwargs) ==
    [k \in DOMAIN kwargs |-> IF k = "node_count" THEN 1 ELSE kwargs[k]]

(* PyTorchConfiguration of the unpacked config['pytorch_configuration'] *)
PyTorchConfiguration(kwargs) == [k \in DOMAIN kwargs |-> kwargs[k]]

(* ScriptRunConfig(source_directory=..., command=..., environment=...,     *)
(*                 compute_target=..., distributed_job_config=...)         *)
ScriptRunConfig(environment, distributed_job_config) ==
    [source_directory       |-> config["source_directory"],
     command                |-> config["training_command"],
     environment            |-> environment,
     compute_target         |-> config["compute_target"],
     distributed_job_config |-> distributed_job_config]

(* Cell fcb9a50f: configure the run. *)
ConfigureCell ==
    /\ At("fcb9a50f")
    /\ LET distributed_job_config ==
               PyTorchConfiguration(config["pytorch_configuration"])
       IN  IF Bound("environment")
           THEN /\ ns' = Bind(Bind(ns, "distributed_job_config",
                                   distributed_job_config),
                              "aml_config",
                              ScriptRunConfig(ns["environment"],
                                              distributed_job_config))
                /\ pc' = After("fcb9a50f")
                /\ UNCHANGED raised
           ELSE /\ ns' = Bind(ns, "distributed_job_config",
                              distributed_job_config)
                /\ Raise("fcb9a50f", "NameError")
    /\ UNCHANGED <<notebook, config, past,
                   printed, calls, localDisk, workspace>>

(* The tags with the evaluation batch size under batch_size. *)
NotebookTags_EvalBatch ==
    [model            |-> config["model"],
     task             |-> config["task"],
     metric           |-> config["metric"],
     environment      |-> config["environment"],
     num_train_epochs |-> str(config["training_args"]["num_train_epochs"]),
     batch_size       |->
         str(config["training_args"]["per_device_eval_batch_size"])]

(* The dict cell 668a717a passes to run.set_tags. *)
NotebookTags ==
    [model            |-> config["model"],
     task             |-> config["task"],
     metric           |-> config["metric"],
     environment      |-> config["environment"],
     num_train_epochs |-> str(config["training_args"]["num_train_epochs"]),
     batch_size       |->
         str(config["training_args"]["per_device_train_batch_size"])]

(* run.set_tags(tags): adds the tags to the run's, replacing equal keys. *)
SetTags(run, tags) ==
    [run EXCEPT !.tags =
        [k \in DOMAIN run.tags \cup DOMAIN tags |->
            IF k \in DOMAIN tags THEN tags[k] ELSE run.tags[k]]]

(* experiment.submit(aml_config): the run is queued and its handle         *)
(* returned.                                                               *)
Submitted(aml_config) ==
    [experiment |-> config["experiment"], run_config |-> aml_config,
     status |-> "Queued", tags |-> NoNames, metrics |-> NoNames]

(* Cell 668a717a: submit, tag, print the portal URL. *)
SubmitCell ==
    /\ At("668a717a")
    /\ IF Bound("aml_config")
       THEN LET id == Len(runs) + 1
            IN  /\ runs' = Append(runs,
                                  SetTags(Submitted(ns["aml_config"]),
                                          NotebookTags))
                /\ ns' = Bind(ns, "run", id)
                /\ calls' = calls \o
                       <<Call("Experiment.submit", ns["aml_config"], id),
                         Call("Run.set_tags", NotebookTags, "returned")>>
                /\ printed' = Append(printed, "View run details:")
                /\ pc' = After("668a717a")
                /\ UNCHANGED raised
       ELSE /\ Raise("668a717a", "NameError")
            /\ UNCHANGED <<runs, ns, calls, printed>>
    /\ UNCHANGED <<notebook, config, past,
                   localDisk, computeTargets, environments,
                   builds, datastore, datasets, models>>

(* Cell 9e96dd01: print run.get_status(), read once. *)
RunStatusCell ==
    /\ At("9e96dd01")
    /\ IF Bound("run")
       THEN /\ calls' = Append(calls,
                               Call("Run.get_status", ns["run"],
                                    runs[ns["run"]].status))
            /\ printed' = Append(printed,
                                 "Run status: " \o runs[ns["run"]].status)
            /\ pc' = After("9e96dd01")
            /\ UNCHANGED raised
       ELSE /\ Raise("9e96dd01", "NameError")
            /\ UNCHANGED <<calls, printed>>
    /\ UNCHANGED <<notebook, config, past, ns, localDisk, workspace>>

(* f"{x:.2f}" of a value held in hundredths *)
Format2f(x) == str(x \div 100) \o "." \o Digit((x \div 10) % 10)
                   \o Digit(x % 10)

MetricKey == "eval_" \o config["metric"]

(* The value printed is the first one logged, not the last. *)
LastLogged_First(values) == values[1]

(* values[-1] *)
LastLogged(values) == values[Len(values)]

(* run.get_metrics()[key]: the list of the values logged under the key,    *)
(* or the value itself when only one was logged.                           *)
Subscriptable(values) == Len(values) > 1

(* Cell 4930a3eb: print the last value logged under 'eval_' + metric. *)
MetricCell ==
    /\ At("4930a3eb")
    /\ IF ~Bound("run")
       THEN /\ Raise("4930a3eb", "NameError")
            /\ UNCHANGED <<calls, printed>>
       ELSE LET metrics == runs[ns["run"]].metrics
                call    == Call("Run.get_metrics", ns["run"],
                                runs[ns["run"]].status)
            IN  /\ calls' = Append(calls, call)
                /\ IF MetricKey \notin DOMAIN metrics
                   THEN /\ Raise("4930a3eb", "KeyError")
                        /\ UNCHANGED printed
                   ELSE IF ~Subscriptable(metrics[MetricKey])
                   THEN /\ Raise("4930a3eb", "TypeError")
                        /\ UNCHANGED printed
                   ELSE /\ printed' =
                               printed \o
                               <<"Ending " \o config["metric"] \o ": " \o
                                     Format2f(LastLogged(metrics[MetricKey])),
                                 "View run details:">>
                        /\ pc' = After("4930a3eb")
                        /\ UNCHANGED raised
    /\ UNCHANGED <<notebook, config, past, ns, localDisk, workspace>>

(* The keys cell a1455551 reads from run.tags. *)
ModelTagKeys == {"registered_model_name", "registered_model_version"}

(* run.tags[key] for both keys succeeds. *)
TagsPresent(tags) == ModelTagKeys \subseteq DOMAIN tags

(* A lookup by name alone. *)
ModelsNamed_AnyVersion(name, version) ==
    {i \in 1..Len(models) : models[i].name = name}

(* azureml.core.Model(workspace, name=..., version=...): the registered    *)
(* models of that name and version.                                        *)
ModelsNamed(name, version) ==
    {i \in 1..Len(models) :
        models[i].name = name /\ str(models[i].version) = version}

(* Cell a1455551: look the model up by the run's tags and download it. *)
DownloadCell ==
    /\ At("a1455551")
    /\ IF ~Bound("run")
       THEN /\ Raise("a1455551", "NameError")
            /\ UNCHANGED <<ns, calls, localDisk>>
       ELSE LET tags == runs[ns["run"]].tags
                read == Call("Run.tags", ns["run"], runs[ns["run"]].status)
            IN  IF ~TagsPresent(tags)
                THEN /\ calls' = Append(calls, read)
                     /\ Raise("a1455551", "KeyError")
                     /\ UNCHANGED <<ns, localDisk>>
                ELSE LET name    == tags["registered_model_name"]
                         version == tags["registered_model_version"]
                         found   == ModelsNamed(name, version)
                         arg     == [name |-> name, version |-> version]
                     IN  IF found = {}
                         THEN /\ calls' = calls \o
                                         <<read, Call("Model", arg, "raised")>>
                              /\ Raise("a1455551", "WebserviceException")
                              /\ UNCHANGED <<ns, localDisk>>
                         ELSE LET m == CHOOSE i \in found : TRUE
                              IN  /\ ns' = Bind(ns, "aml_model", m)
                                  /\ localDisk' =
                                         [localDisk EXCEPT ![ModelDir] =
                                             [f \in {"config.json"} |->
                                                 models[m]]]
                                  /\ calls' = calls \o
                                         <<read, Call("Model", arg, m),
                                           Call("Model.download", m,
                                                runs[ns["run"]].status)>>
                                  /\ pc' = After("a1455551")
                                  /\ UNCHANGED raised
    /\ UNCHANGED <<notebook, config, past, printed, workspace>>

(* Cell 1cbf30c4: load tokenizer and model from "model", build the         *)
(* pipeline.                                                               *)
PipelineCell ==
    /\ At("1cbf30c4")
    /\ IF localDisk[ModelDir] # NoFiles
       THEN /\ ns' = Bind(ns, "pipeline", localDisk[ModelDir]["config.json"])
            /\ pc' = After("1cbf30c4")
            /\ UNCHANGED raised
       ELSE /\ Raise("1cbf30c4", "OSError")
            /\ UNCHANGED ns
    /\ UNCHANGED <<notebook, config, past,
                   printed, calls, localDisk, workspace>>

Sentences == <<"i like pie", "books sent other the students">>

Labels == {"negative", "positive"}

(* Cell 2f80bd5b: classify the two sentences and print the labels. *)
InferenceCell ==
    /\ At("2f80bd5b")
    /\ IF Bound("pipeline")
       THEN /\ \E label \in [1..Len(Sentences) -> Labels] :
                  printed' =
                      PrintAll(printed,
                               [i \in 1..Len(Sentences) |->
                                   "Is '" \o Sentences[i]
                                       \o "' grammatical?: " \o label[i]])
            /\ pc' = After("2f80bd5b")
            /\ UNCHANGED raised
       ELSE /\ Raise("2f80bd5b", "NameError")
            /\ UNCHANGED printed
    /\ UNCHANGED <<notebook, config, past, ns, calls, localDisk, workspace>>

-----------------------------------------------------------------------------
(* The training job on the cluster: src/train.py run by the command of the *)
(* run configuration.  It evaluates once per epoch (evaluation_strategy:   *)
(* epoch, report_to: azure_ml), and at its end registers the model under   *)
(* registered_model_name and tags the run with the model's name and        *)
(* version.                                                                *)

MetricValues == {12, 55}

RunStarts ==
    /\ \E id \in 1..Len(runs) :
          /\ runs[id].status = "Queued"
          /\ runs' = [runs EXCEPT ![id].status = "Running"]
    /\ UNCHANGED <<local, computeTargets, environments, builds, datastore,
                   datasets, models>>

Logged(run) ==
    IF MetricKey \in DOMAIN run.metrics THEN run.metrics[MetricKey] ELSE <<>>

TrainEpoch ==
    /\ \E id \in 1..Len(runs), value \in MetricValues :
          /\ runs[id].status = "Running"
          /\ Len(Logged(runs[id])) < config["training_args"]["num_train_epochs"]
          /\ runs' = [runs EXCEPT ![id].metrics =
                         Bind(@, MetricKey, Append(Logged(runs[id]), value))]
    /\ UNCHANGED <<local, computeTargets, environments, builds, datastore,
                   datasets, models>>

NextModelVersion(name) ==
    Cardinality({i \in 1..Len(models) : models[i].name = name}) + 1

RunCompletes ==
    /\ \E id \in 1..Len(runs) :
          LET name    == config["registered_model_name"]
              version == NextModelVersion(name)
          IN  /\ runs[id].status = "Running"
              /\ Len(Logged(runs[id])) =
                     config["training_args"]["num_train_epochs"]
              /\ models' = Append(models,
                                  [name |-> name, version |-> version,
                                   run |-> id])
              /\ runs' = [runs EXCEPT ![id] =
                             [SetTags(@,
                                 [registered_model_name    |-> name,
                                  registered_model_version |-> str(version)])
                              EXCEPT !.status = "Completed"]]
    /\ UNCHANGED <<local, computeTargets, environments, builds, datastore,
                   datasets>>

RunFails ==
    /\ \E id \in 1..Len(runs) :
          /\ runs[id].status \in RunInProgressStatuses
          /\ runs' = [runs EXCEPT ![id].status = "Failed"]
    /\ UNCHANGED <<local, computeTargets, environments, builds, datastore,
                   datasets, models>>

-----------------------------------------------------------------------------
(* src/deepspeed_config.json, the file training_args.deepspeed names.      *)
(* Learning rates are in millionths (5e-5 is 50); the bucket sizes and the *)
(* fp16 loss-scale settings are left out.                                  *)

DeepspeedConfig ==
    [ fp16              |-> [enabled |-> FALSE],
      zero_optimization |-> [stage |-> 2, cpu_offload |-> TRUE],
      optimizer         |-> [type   |-> "AdamW",
                             params |-> [lr |-> 50, weight_decay |-> 0]],
      scheduler         |-> [type   |-> "WarmupLR",
                             params |-> [warmup_min_lr    |-> 0,
                                         warmup_max_lr    |-> 50,
                                         warmup_num_steps |-> 0]] ]

(* Scheduler iterations looked at. *)
MaxIterations == 4

(* The warmup length taken as configured. *)
WarmupNumSteps_AsConfigured(params) == params.warmup_num_steps

(* WarmupLR warms up over at least two steps:                              *)
(* self.warmup_num_steps = max(2, warmup_num_steps)                        *)
WarmupNumSteps(params) ==
    IF params.warmup_num_steps < 2 THEN 2 ELSE params.warmup_num_steps

(* The learning rates WarmupLR may set at scheduler iteration `it`:        *)
(* min_lr + (max_lr - min_lr) * gamma, gamma = log(it + 1) / log(steps)    *)
(* while it < steps and 1 after.  gamma is 0 at iteration 0 and 1 from     *)
(* iteration steps - 1 on; between them it lies strictly between.          *)
WarmupLR(params, it) ==
    IF it >= WarmupNumSteps(params) - 1 THEN {params.warmup_max_lr}
    ELSE IF it = 0 THEN {params.warmup_min_lr}
    ELSE {lr \in params.warmup_min_lr..params.warmup_max_lr :
             params.warmup_min_lr < params.warmup_max_lr
                 => (params.warmup_min_lr < lr /\ lr < params.warmup_max_lr)}

-----------------------------------------------------------------------------
(* The configuration keys the cells read: config[k] or config[k][l], as    *)
(* the path <<k>> or <<k, l>>.                                             *)

(* Cell 1cbf30c4 reading a key the file does not have. *)
ConfigReads_ModelDir(cell) ==
    IF cell = "1cbf30c4" THEN {<<"model_dir">>} ELSE {}

ConfigReads(cell) ==
    CASE cell = "1a1c3647" -> {<<"compute_target">>, <<"compute_size">>,
                               <<"compute_node_count">>}
      [] cell = "f134ed2c" -> {<<"environment">>, <<"environment_dockerfile">>}
      [] cell = "48a444a3" -> {<<"experiment">>, <<"environment">>}
      [] cell = "2055c04e" -> {<<"source_directory">>}
      [] cell = "54752039" -> {<<"environment">>}
      [] cell = "8fe94083" -> {<<"task">>}
      [] cell = "fabfa0e2" -> {<<"model">>, <<"data_dir">>}
      [] cell = "aa983db6" -> {<<"data_dir">>}
      [] cell = "43537570" -> {<<"task">>, <<"model">>, <<"data_dir">>}
      [] cell = "6a34ff48" -> IF notebook = TrainModelAmltmp THEN {}
                              ELSE {<<"environment">>}
      [] cell = "f6800e86" -> {<<"experiment">>}
      [] cell = "fcb9a50f" -> {<<"pytorch_configuration">>,
                               <<"source_directory">>, <<"training_command">>,
                               <<"compute_target">>}
      [] cell = "668a717a" -> {<<"model">>, <<"task">>, <<"metric">>,
                               <<"environment">>,
                               <<"training_args", "num_train_epochs">>,
                               <<"training_args",
                                 "per_device_train_batch_size">>}
      [] cell = "4930a3eb" -> {<<"metric">>}
      [] OTHER -> {}

(* The cells of a notebook that read the configuration before its first    *)
(* modelled cell: the experiment cell of the train-model notebook.         *)
SetupCells(nb) ==
    IF nb \in {TrainModel, TrainModelAmltmp} THEN {"f6800e86"} ELSE {}

(* config[k] (and config[k][l]) does not raise KeyError. *)
Defined(cfg, path) ==
    /\ path[1] \in DOMAIN cfg
    /\ Len(path) = 2 => path[2] \in DOMAIN cfg[path[1]]

-----------------------------------------------------------------------------
(* The create-compute notebook executed again against the same workspace:  *)
(* once its cell has ended, completed or with a traceback, the kernel is   *)
(* restarted and the notebook run from the top.  Nothing deletes a cluster *)
(* in between.                                                             *)

MaxExecutions == 3

ExecuteAgain ==
    /\ notebook = CreateCompute
    /\ pc \in {"done", "halted"}
    /\ Len(past) + 1 < MaxExecutions
    /\ past' = Append(past, calls)
    /\ pc' = Cells(notebook)[1]
    /\ ns' = NoNames
    /\ raised' = {}
    /\ printed' = <<>>
    /\ calls' = <<>>
    /\ UNCHANGED <<notebook, config, localDisk, workspace>>

-----------------------------------------------------------------------------
(* The state when the first modelled cell of the notebook is about to run. *)

DatasetNames == {c.task : c \in Configs}

(* The task's data as downloaded, uploaded without tokenizing. *)
RawData ==
    [f \in DataFiles |-> Content(LoadDataset(ConfigYml.task), "earlier")]

(* The dataset an earlier session registered from EarlierData. *)
EarlierDataset ==
    [name        |-> ConfigYml.task,
     description |-> "Glue dataset for cola, tokenized for bert-base-cased",
     tags        |-> [task |-> "cola", model |-> "bert-base-cased"],
     path        |-> ConfigYml.data_dir,
     version     |-> 1]

(* A model an earlier run registered, and its downloaded copy. *)
EarlierModel ==
    [name |-> ConfigYml.registered_model_name, version |-> 1, run |-> 0]

EnvironmentHistories(name) ==
    {<<>>, <<FromDockerfile(ConfigYml.environment_dockerfile)>>}

Init ==
    /\ notebook \in Notebooks
    /\ config \in Configs
    /\ pc = Cells(notebook)[1]
    /\ ns = NoNames
    /\ raised = {}
    /\ printed = <<>>
    /\ calls = <<>>
    /\ past = <<>>
    /\ computeTargets \in
          [ClusterNames -> {NoCluster} \cup
               UNION {ExistingClusters(n) : n \in ClusterNames}]
    /\ \A n \in ClusterNames :
          computeTargets[n] # NoCluster => computeTargets[n].name = n
    /\ notebook # CreateCompute =>
          \A n \in ClusterNames : computeTargets[n] = NoCluster
    /\ computeTargets[OtherCluster] \in
          {NoCluster,
           ComputeRecord(OtherCluster, ConfigYml.compute_size,
                         ConfigYml.compute_node_count, "Succeeded")}
    /\ environments \in [EnvironmentNames -> UNION
                             {EnvironmentHistories(n) : n \in EnvironmentNames}]
    /\ notebook \in {CreateCompute, PrepareData} =>
          \A n \in EnvironmentNames : environments[n] = <<>>
    /\ builds = <<>>
    /\ localDisk \in [DataPaths \cup {ModelDir} -> {NoFiles, EarlierData}]
    /\ localDisk[OtherPath] = NoFiles
    /\ localDisk[ModelDir] \in
          {NoFiles, [f \in {"config.json"} |-> EarlierModel]}
    /\ notebook # PrepareData =>
          \A p \in DataPaths : localDisk[p] = NoFiles
    /\ notebook \notin {TrainModel, TrainModelAmltmp} =>
          localDisk[ModelDir] = NoFiles
    /\ datastore \in [DataPaths -> {NoFiles, EarlierData, RawData}]
    /\ \A p \in DataPaths \ {OtherPath} : datastore[p] # RawData
    /\ datastore[OtherPath] \in {NoFiles, RawData}
    /\ notebook # PrepareData => \A p \in DataPaths : datastore[p] = NoFiles
    /\ datasets \in [DatasetNames -> {<<>>, <<EarlierDataset>>}]
    /\ notebook # PrepareData => \A n \in DatasetNames : datasets[n] = <<>>
    /\ runs = <<>>
    /\ models \in {<<>>, <<EarlierModel>>}
    /\ notebook \notin {TrainModel, TrainModelAmltmp} => models = <<>>

Next ==
    \/ ComputeLookup
    \/ ComputeCreate
    \/ ComputeWait
    \/ ProvisioningFinishes
    \/ RegisterCell
    \/ BuildCell
    \/ BuildStatusCell
    \/ AcrNamesCell
    \/ LocalBuildCell
    \/ DockerRunCell
    \/ AcrUploadCell
    \/ AcrEnvironmentCell
    \/ BuildAdvances
    \/ LoadCell
    \/ TokenizeCell
    \/ UploadCell
    \/ RegisterDatasetCell
    \/ DatasetVersionCell
    \/ GetEnvironmentCell
    \/ ConfigureCell
    \/ SubmitCell
    \/ RunStatusCell
    \/ MetricCell
    \/ DownloadCell
    \/ PipelineCell
    \/ InferenceCell
    \/ RunStarts
    \/ TrainEpoch
    \/ RunCompletes
    \/ RunFails
    \/ ExecuteAgain

Spec == Init /\ [][Next]_vars

-----------------------------------------------------------------------------
(* Properties *)

LookupCalls == CallsOf("ComputeTarget")

CreateCalls == CallsOf("ComputeTarget.create")

WaitCalls == CallsOf("wait_for_completion")

(* The cluster the Python variable `cluster` refers to. *)
BoundCluster == computeTargets[ns["cluster"].name]

(* C1: the create-compute cell first looks the cluster up under            *)
(* config['compute_target']; ComputeTarget.create is called if and only if *)
(* that lookup raised ComputeTargetException (the cluster was not found),  *)
(* and a lookup that succeeds is followed by no provisioning call.         *)
C1_CreateIffNotFound ==
    notebook = CreateCompute =>
        /\ \A i \in 1..Len(calls) : (i = 1) <=> (i \in LookupCalls)
        /\ calls # <<>> => calls[1].arg = config["compute_target"]
        /\ \A i \in CreateCalls : calls[1].result = "ComputeTargetException"
        /\ pc \in {"1a1c3647:wait", "done", "halted"} =>
               (CreateCalls # {} <=> calls[1].result = "ComputeTargetException")
        /\ (calls # <<>> /\ calls[1].result = "found") => CreateCalls = {}

C1_Witness ==
    /\ notebook = CreateCompute
    /\ pc = "done"
    /\ calls[1].result = "ComputeTargetException"
    /\ CreateCalls # {}

(* C5, as claimed: after the create-compute cell completes, the cluster    *)
(* bound to `cluster` has the configured name, VM size and maximum node    *)
(* count, whether it was found or newly created.                           *)
C5_Original ==
    (notebook = CreateCompute /\ pc = "done") =>
        /\ BoundCluster.name = config["compute_target"]
        /\ BoundCluster.vm_size = config["compute_size"]
        /\ BoundCluster.max_nodes = config["compute_node_count"]

(* C5, amended: after the create-compute cell completes, the cluster bound *)
(* to `cluster` has the name config['compute_target']; its VM size and     *)
(* maximum node count are the configured ones when the cell created it,    *)
(* and a cluster that was found keeps the size and node count it had.      *)
C5_Amended ==
    (notebook = CreateCompute /\ pc = "done") =>
        /\ ns["cluster"].name = config["compute_target"]
        /\ BoundCluster.name = config["compute_target"]
        /\ CreateCalls # {} =>
               /\ BoundCluster.vm_size = config["compute_size"]
               /\ BoundCluster.max_nodes = config["compute_node_count"]
        /\ CreateCalls = {} =>
               \E c \in ExistingClusters(config["compute_target"]) :
                   /\ BoundCluster.vm_size = c.vm_size
                   /\ BoundCluster.max_nodes = c.max_nodes

C5_Witness ==
    /\ notebook = CreateCompute
    /\ pc = "done"
    /\ CreateCalls # {}
    /\ BoundCluster.provisioning_state = "Succeeded"
    /\ BoundCluster.vm_size = config["compute_size"]

(* C3, as claimed: every call to a remote service is blocking, so no       *)
(* remote operation a notebook started is still in progress when a later   *)
(* call is issued.                                                         *)
C3_Original == \A i \in 1..Len(calls) : ~calls[i].busy

(* C3, amended: only the cluster provisioning is waited for:               *)
(* cluster.wait_for_completion returns only when the cluster has left its  *)
(* provisioning state, so nothing the create-compute notebook started is   *)
(* in progress once its cell has completed, and the prepare-data notebook  *)
(* starts no remote operation that outlives its call.  environment.build   *)
(* and experiment.submit return with the build or run still in progress,   *)
(* and only the notebooks calling them issue a call while an operation     *)
(* they started is in progress.                                            *)
C3_Amended ==
    /\ (notebook = CreateCompute /\ pc = "done") =>
           /\ WaitCalls # {}
           /\ ~ClusterInProgress
           /\ ~Provisioning(ns["cluster"].name)
    /\ \A i \in WaitCalls : calls[i].result # "Creating"
    /\ \A i \in 1..Len(calls) :
           calls[i].busy =>
               notebook \in {PrepareEnvironment, TrainModel, TrainModelAmltmp}

C3_Witness ==
    /\ notebook = CreateCompute
    /\ pc = "done"
    /\ CreateCalls # {}
    /\ WaitCalls # {}
    /\ ~InProgress

BuildCalls == CallsOf("Environment.build")

SubmitCalls == CallsOf("Experiment.submit")

StatusCalls == CallsOf("Run.get_status")

MetricCalls == CallsOf("Run.get_metrics")

TagReads == CallsOf("Run.tags")

DownloadCalls == CallsOf("Model.download")

Lines == {printed[i] : i \in 1..Len(printed)}

(* C2, as claimed: the metric is retrieved and the model downloaded only   *)
(* after the submitted run has reached a completed state.                  *)
C2_Original ==
    /\ (MetricCalls # {} /\ ~Raised("4930a3eb")) =>
           \A i \in MetricCalls : calls[i].result = "Completed"
    /\ \A i \in DownloadCalls : calls[i].result = "Completed"

(* C2, amended: the train-model notebook does not poll.  Between           *)
(* experiment.submit and run.get_metrics / the model lookup it reads       *)
(* run.get_status() once and prints it; the metric retrieval and the       *)
(* lookup of the model by the run's tags are issued after the submit and   *)
(* after that one status read, whatever status was read, so the run may    *)
(* still be queued or running when they are issued.                        *)
C2_Amended ==
    /\ Cardinality(StatusCalls) <= 1
    /\ Cardinality(SubmitCalls) <= 1
    /\ \A i \in MetricCalls \cup TagReads \cup DownloadCalls :
           \E k \in SubmitCalls, j \in StatusCalls :
               /\ k < j
               /\ j < i
               /\ calls[j].arg = calls[k].result
               /\ ("Run status: " \o calls[j].result) \in Lines

C2_Witness ==
    /\ ~Raised("4930a3eb")
    /\ \E i \in MetricCalls, j \in StatusCalls :
           /\ calls[i].result = "Running"
           /\ calls[j].result = "Queued"

(* C4: a failed environment build or training run is not retried or        *)
(* recovered locally: once a build has failed no further build call is     *)
(* issued for its environment version and it stays failed, once a run has  *)
(* failed no further submit call is issued and it stays failed; the status *)
(* cells print the status they read, Failed included, and raise nothing.   *)
C4_NoRetry ==
    /\ [](\A r \in raised :
             r.cell \in {"00fcb977", "9e96dd01"} => r.exc = "NameError")
    /\ [](\A i \in CallsOf("build.status") :
             ("Current status is " \o calls[i].result \o ".") \in Lines)
    /\ [](\A i \in StatusCalls : ("Run status: " \o calls[i].result) \in Lines)
    /\ [][/\ \A id \in 1..Len(builds) :
               builds[id].status = "Failed" =>
                   /\ builds'[id].status = "Failed"
                   /\ \A j \in BuildCalls' \ BuildCalls :
                          calls'[j].arg # [name    |-> builds[id].name,
                                           version |-> builds[id].version]
          /\ \A id \in 1..Len(runs) :
               runs[id].status = "Failed" =>
                   /\ runs'[id].status = "Failed"
                   /\ SubmitCalls' = SubmitCalls]_vars

C4_Witness ==
    /\ notebook = PrepareEnvironment
    /\ pc = "done"
    /\ Cardinality(BuildCalls) = 2
    /\ \E i \in CallsOf("build.status") : calls[i].result = "Failed"
    /\ "Current status is Failed." \in Lines

(* C6: when no cell raises, the prepare-data notebook downloads,           *)
(* tokenizes, saves to config['data_dir'], uploads and registers in that   *)
(* order; the registered path is the upload's target_path, and the files   *)
(* there are the tokenized files just saved, none of them raw.             *)
C6_OrderAndPath ==
    (notebook = PrepareData /\ raised = {}
        /\ CallsOf("Dataset.register") # {}) =>
        LET path == config["data_dir"]
            registered == datasets[config["task"]]
        IN  /\ [i \in 1..Len(calls) |-> calls[i].api] =
                   <<"load_dataset", "Dataset.map", "save_to_disk",
                     "Datastore.upload", "Dataset.register">>
            /\ calls[3].arg = path
            /\ calls[4].arg.src_dir = path
            /\ calls[4].arg.target_path = path
            /\ calls[5].arg.path = calls[4].arg.target_path
            /\ registered[Len(registered)].path = calls[4].arg.target_path
            /\ \A f \in DataFiles :
                   /\ datastore[path][f] = localDisk[path][f]
                   /\ datastore[path][f] =
                          Content([task |-> config["task"],
                                   form |-> "tokenized",
                                   tokenizer |-> config["model"]],
                                  "this session")
            /\ \A f \in DOMAIN datastore[path] :
                   datastore[path][f].form = "tokenized"

C6_Witness ==
    /\ notebook = PrepareData
    /\ pc = "done"
    /\ raised = {}
    /\ CallsOf("Dataset.register") # {}
    /\ StaleFile \in DOMAIN datastore[config["data_dir"]]

(* C7: the run is submitted with the environment named in config.yml, so   *)
(* the 'environment' tag of a run names the environment it executes in.    *)
C7_TagNamesEnvironment ==
    \A id \in 1..Len(runs) :
        "environment" \in DOMAIN runs[id].tags =>
            /\ runs[id].run_config.environment.name = config["environment"]
            /\ runs[id].tags["environment"] =
                   runs[id].run_config.environment.name

(* C8: the ScriptRunConfig's source_directory, command and compute_target  *)
(* are config's source_directory, training_command and compute_target, and *)
(* the PyTorchConfiguration has exactly the key/value pairs of             *)
(* config['pytorch_configuration']; the run is submitted with them.        *)
C8_Verbatim ==
    /\ Bound("distributed_job_config") =>
           ns["distributed_job_config"] = config["pytorch_configuration"]
    /\ Bound("aml_config") =>
           /\ ns["aml_config"].source_directory = config["source_directory"]
           /\ ns["aml_config"].command = config["training_command"]
           /\ ns["aml_config"].compute_target = config["compute_target"]
           /\ ns["aml_config"].distributed_job_config =
                  config["pytorch_configuration"]
           /\ config = ConfigYml =>
                  /\ ns["aml_config"].source_directory = "src"
                  /\ ns["aml_config"].command = "python train.py"
                  /\ ns["aml_config"].compute_target = "gpu-K80-1"
                  /\ ns["aml_config"].distributed_job_config =
                         [node_count |-> 2, process_count |-> 2]
    /\ \A i \in SubmitCalls :
           /\ calls[i].arg = ns["aml_config"]
           /\ runs[calls[i].result].run_config = ns["aml_config"]

C8_Witness ==
    /\ SubmitCalls # {}
    /\ config = CustomConfig
    /\ \E id \in 1..Len(runs) :
           runs[id].run_config.distributed_job_config.node_count = 4

NotebookTagKeys ==
    {"model", "task", "metric", "environment", "num_train_epochs",
     "batch_size"}

(* C9: the tags the notebook sets on a run are model, task, metric and     *)
(* environment, equal to the config entries of those names, and            *)
(* num_train_epochs and batch_size, the decimal strings of                 *)
(* training_args.num_train_epochs and                                      *)
(* training_args.per_device_train_batch_size; they are set right after the *)
(* submit that created the run.                                            *)
C9_Tags ==
    /\ \A i \in CallsOf("Run.set_tags") :
           /\ i - 1 \in SubmitCalls
           /\ DOMAIN calls[i].arg = NotebookTagKeys
           /\ \A k \in NotebookTagKeys :
                  runs[calls[i - 1].result].tags[k] = calls[i].arg[k]
    /\ \A id \in 1..Len(runs) :
           LET tags == runs[id].tags
           IN  /\ NotebookTagKeys \subseteq DOMAIN tags
               /\ \A k \in {"model", "task", "metric", "environment"} :
                      tags[k] = config[k]
               /\ tags["num_train_epochs"] =
                      str(config["training_args"]["num_train_epochs"])
               /\ tags["batch_size"] =
                      str(config["training_args"]
                                ["per_device_train_batch_size"])
               /\ config = ConfigYml =>
                      tags["num_train_epochs"] = "3" /\ tags["batch_size"] = "16"
               /\ config = CustomConfig =>
                      tags["num_train_epochs"] = "2" /\ tags["batch_size"] = "128"

C9_Witness ==
    /\ CallsOf("Run.set_tags") # {}
    /\ \E id \in 1..Len(runs) :
           /\ runs[id].status = "Completed"
           /\ runs[id].tags["batch_size"] = "128"
           /\ TagsPresent(runs[id].tags)

KeyErrorAtDownload ==
    [cell |-> "a1455551", exc |-> "KeyError"] \in raised

RegisterCalls == CallsOf("Environment.register")

BuildStatusCalls == CallsOf("build.status")

(* C11: in the prepare-environment notebook an environment is registered   *)
(* before it is built.  Register starts no build: every image build of the *)
(* workspace was started by a build call, one build per call.  Every build *)
(* call is made on the environment of config['environment'], at the        *)
(* version the latest earlier register call of the session returned.  And  *)
(* build.status reads what the build's status is at that moment, so a      *)
(* build that finished successfully reads Succeeded (and goes on reading   *)
(* Succeeded: no build leaves that status).                                *)
C11_RegisterThenBuild ==
    /\ [](notebook = PrepareEnvironment =>
            /\ Len(builds) = Cardinality(BuildCalls)
            /\ \A i \in BuildCalls :
                   /\ calls[i].arg.name = config["environment"]
                   /\ \E j \in RegisterCalls :
                          /\ j < i
                          /\ \A k \in RegisterCalls : k < i => k <= j
                          /\ calls[j].arg.name = calls[i].arg.name
                          /\ calls[j].result = calls[i].arg.version
                          /\ calls[i].arg.version
                                 \in 1..Len(environments[calls[i].arg.name])
            /\ \A i \in BuildStatusCalls :
                   calls[i].result = "Succeeded"
                       => builds[calls[i].arg].status = "Succeeded")
    /\ [][notebook = PrepareEnvironment =>
            /\ \A id \in 1..Len(builds) :
                   builds[id].status = "Succeeded"
                       => builds'[id].status = "Succeeded"
            /\ (Len(calls') = Len(calls) + 1
                    /\ calls'[Len(calls')].api = "build.status")
                   => /\ calls'[Len(calls')].result =
                             builds[calls'[Len(calls')].arg].status
                      /\ printed'[Len(printed')] =
                             "Current status is "
                                 \o builds[calls'[Len(calls')].arg].status
                                 \o "."]_vars

(* Registered, then built, the build succeeded, and its status was read. *)
C11_Witness ==
    /\ notebook = PrepareEnvironment
    /\ \E i \in BuildStatusCalls :
           /\ calls[i].result = "Succeeded"
           /\ \E b \in BuildCalls, r \in RegisterCalls :
                  r < b /\ b < i /\ calls[b].result = calls[i].arg

UploadCalls == CallsOf("Datastore.upload")

Uploaded == \E i \in UploadCalls : calls[i].result = "returned"

DatasetRegisterCalls == CallsOf("Dataset.register")

C14_PrintsCommands ==
    (notebook = PrepareEnvironment
        /\ Bound("acr_name") /\ Bound("container_name")
        /\ pc \in {"54752039", "done", "halted"}) =>
        /\ ~Raised("cd378a96")
        /\ Len(printed) >= Len(AcrUploadCommands)
        /\ SubSeq(printed, Len(printed) - Len(AcrUploadCommands) + 1,
                  Len(printed)) = AcrUploadCommands

(* The keys section "Interfaces" of the specification lists as recognized. *)
RecognizedKeys ==
    {"model", "task", "experiment", "metric", "data_dir", "source_directory",
     "environment", "environment_dockerfile", "training_command",
     "compute_target", "compute_size", "compute_node_count",
     "registered_model_name", "pytorch_configuration", "training_args"}

CellsOf(nb) == {Cells(nb)[i] : i \in 1..Len(Cells(nb))} \cup SetupCells(nb)

(* C15: every configuration key a cell of the notebook reads is defined in *)
(* the loaded config.yml, so no cell has raised KeyError on a              *)
(* configuration key (the only KeyErrors are those of the run's metrics    *)
(* and tags); and every key listed as recognized is in the file, the       *)
(* epoch count, batch size and evaluation strategy under training_args and *)
(* the node and process counts under pytorch_configuration.                *)
C15_KeysDefined ==
    /\ \A cell \in CellsOf(notebook) :
           \A path \in ConfigReads(cell) : Defined(config, path)
    /\ \A r \in raised :
           r.exc = "KeyError" => r.cell \in {"4930a3eb", "a1455551"}
    /\ RecognizedKeys \subseteq DOMAIN config
    /\ {"num_train_epochs", "per_device_train_batch_size",
        "evaluation_strategy"} \subseteq DOMAIN config["training_args"]
    /\ {"node_count", "process_count"}
           \subseteq DOMAIN config["pytorch_configuration"]

(* The cells that read the most keys have run: the run was configured,     *)
(* submitted and tagged.                                                   *)
C15_Witness ==
    /\ notebook = TrainModel
    /\ raised = {}
    /\ SubmitCalls # {}
    /\ \E path \in ConfigReads("668a717a") : Len(path) = 2

(* C16: the distributed job's size is consistent with the cluster: the     *)
(* node_count of pytorch_configuration does not exceed compute_node_count, *)
(* which is the max_nodes a cluster the create-compute cell provisions     *)
(* gets, and process_count is GPUs-per-computer times node_count for the   *)
(* configured VM size; a submitted run carries these counts.               *)
C16_JobFitsCluster ==
    /\ config["pytorch_configuration"].node_count
           <= config["compute_node_count"]
    /\ config["pytorch_configuration"].process_count =
           GpusPerComputer(config["compute_size"])
               * config["pytorch_configuration"].node_count
    /\ \A i \in CreateCalls :
           /\ calls[i].arg.max_nodes = config["compute_node_count"]
           /\ config["pytorch_configuration"].node_count
                  <= calls[i].arg.max_nodes
    /\ \A i \in SubmitCalls :
           LET job == runs[calls[i].result].run_config.distributed_job_config
           IN  /\ job.node_count <= config["compute_node_count"]
               /\ job.process_count =
                      GpusPerComputer(config["compute_size"]) * job.node_count

(* A run of the file's two nodes and two processes is running. *)
C16_Witness ==
    /\ notebook = TrainModel
    /\ config = ConfigYml
    /\ \E i \in SubmitCalls :
           /\ runs[calls[i].result].status = "Running"
           /\ runs[calls[i].result].run_config.distributed_job_config =
                  [node_count |-> 2, process_count |-> 2]

(* The run of the training job uses the accelerator configuration file. *)
UsesDeepspeedConfig ==
    config["training_args"].deepspeed = "deepspeed_config.json"

(* The parts of C17 read off the file: the scheduler's warmup_max_lr is    *)
(* the optimizer's lr, warmup_min_lr is not greater than warmup_max_lr,    *)
(* warmup_num_steps is 0, gradient partitioning is stage 2 and fp16 is     *)
(* disabled.                                                               *)
AcceleratorFileConsistent ==
    /\ UsesDeepspeedConfig
    /\ DeepspeedConfig.scheduler.params.warmup_max_lr =
           DeepspeedConfig.optimizer.params.lr
    /\ DeepspeedConfig.scheduler.params.warmup_min_lr
           <= DeepspeedConfig.scheduler.params.warmup_max_lr
    /\ DeepspeedConfig.scheduler.params.warmup_num_steps = 0
    /\ DeepspeedConfig.zero_optimization.stage = 2
    /\ ~DeepspeedConfig.fp16.enabled

C18_OnlyNotFoundFallsBack ==
    notebook = CreateCompute =>
        /\ CreateCalls # {} => calls[1].result = "ComputeTargetException"
        /\ (calls # <<>> /\ calls[1].result = "OtherException") =>
               /\ raised = {[cell |-> "1a1c3647", exc |-> "OtherException"]}
               /\ Len(calls) = 1
               /\ CreateCalls = {} /\ WaitCalls = {}
               /\ ~Bound("cluster")
               /\ pc = "halted"
        /\ \A i \in CreateCalls :
               calls[i].result = "raised" =>
                   /\ raised = {[cell |-> "1a1c3647",
                                 exc  |-> "ComputeTargetException"]}
                   /\ i = Len(calls)
                   /\ Cardinality(CreateCalls) = 1
                   /\ WaitCalls = {}
                   /\ ~Bound("cluster")
                   /\ computeTargets[calls[i].arg.name] = NoCluster
                   /\ pc = "halted"
        /\ raised = {} => \A i \in 1..Len(calls) :
               calls[i].result \notin {"OtherException", "raised"}

(* The lookup failed with another exception and the cell ended there. *)
C18_Witness ==
    /\ notebook = CreateCompute
    /\ calls # <<>>
    /\ calls[1].result = "OtherException"
    /\ computeTargets[config["compute_target"]] = NoCluster
    /\ pc = "halted"

(* C19: when the create-compute cell provisions a new cluster, it creates  *)
(* it under the name it looked up, config['compute_target'], with          *)
(* vm_size = config['compute_size'] and max_nodes =                        *)
(* config['compute_node_count'], and the workspace then holds a cluster of *)
(* that name, size and node count.                                         *)
C19_CreatedAsConfigured ==
    notebook = CreateCompute =>
        \A i \in CreateCalls :
            /\ calls[i].arg.name = calls[1].arg
            /\ calls[i].arg =
                   [name      |-> config["compute_target"],
                    vm_size   |-> config["compute_size"],
                    max_nodes |-> config["compute_node_count"]]
            /\ calls[i].result = "returned" =>
                   /\ computeTargets[config["compute_target"]] # NoCluster
                   /\ computeTargets[config["compute_target"]].name =
                          config["compute_target"]
                   /\ computeTargets[config["compute_target"]].vm_size =
                          config["compute_size"]
                   /\ computeTargets[config["compute_target"]].max_nodes =
                          config["compute_node_count"]
                   /\ ns["cluster"].name = config["compute_target"]

(* A cluster of the customised size and node count is being provisioned. *)
C19_Witness ==
    /\ notebook = CreateCompute
    /\ config = CustomConfig
    /\ pc = "1a1c3647:wait"
    /\ \E i \in CreateCalls : calls[i].result = "returned"
    /\ computeTargets[config["compute_target"]] =
           ComputeRecord("gpu-K80-1", "Standard_NC6", 4, "Creating")

BindingCall(i) ==
    \/ calls[i].api = "ComputeTarget" /\ calls[i].result = "found"
    \/ calls[i].api = "ComputeTarget.create" /\ calls[i].result = "returned"

(* C20: cluster.wait_for_completion is executed exactly once on every path *)
(* of the create-compute cell that completes without an exception, when    *)
(* the cluster was found and when it was created; it is never executed     *)
(* more than once, and a wait is the last call of the cell, on the name    *)
(* bound to `cluster`, directly after the lookup that found the cluster or *)
(* the create call that returned it.                                       *)
C20_WaitOnce ==
    notebook = CreateCompute =>
        /\ Cardinality(WaitCalls) <= 1
        /\ \A i \in WaitCalls :
               /\ i = Len(calls)
               /\ i > 1
               /\ BindingCall(i - 1)
               /\ \A j \in 1..(i - 2) : ~BindingCall(j)
               /\ calls[i].arg = ns["cluster"].name
               /\ calls[i].arg = config["compute_target"]
        /\ pc = "done" =>
               /\ raised = {}
               /\ Cardinality(WaitCalls) = 1
        /\ (WaitCalls = {} /\ pc = "halted") => raised # {}

(* The cell completed after waiting for a cluster it found. *)
C20_Witness ==
    /\ notebook = CreateCompute
    /\ pc = "done"
    /\ calls[1].result = "found"
    /\ Cardinality(WaitCalls) = 1
    /\ CreateCalls = {}

(* The executions of the notebook so far, the current one last. *)
Executions == Append(past, calls)

CreatesOf(e) ==
    {i \in 1..Len(Executions[e]) :
        Executions[e][i].api = "ComputeTarget.create"}

ReturnedCreatesOf(e) ==
    {i \in CreatesOf(e) : Executions[e][i].result = "returned"}

(* The execution found the cluster or created it. *)
HadCluster(e) ==
    \E i \in 1..Len(Executions[e]) :
        \/ Executions[e][i].api = "ComputeTarget"
              /\ Executions[e][i].result = "found"
        \/ Executions[e][i].api = "ComputeTarget.create"
              /\ Executions[e][i].result = "returned"

(* The execution's lookup signalled that the cluster was not found. *)
LookupNotFound(e) ==
    \E i \in 1..Len(Executions[e]) :
        /\ Executions[e][i].api = "ComputeTarget"
        /\ Executions[e][i].result = "ComputeTargetException"

(* C21, as claimed: over the sequential executions of the create-compute   *)
(* cell against the same workspace at most one create call is issued for   *)
(* the name config['compute_target'], and no execution after one that      *)
(* found or created the cluster is told that the cluster was not found.    *)
C21_Original ==
    notebook = CreateCompute =>
        /\ Cardinality(UNION {{<<e, i>> : i \in CreatesOf(e)} :
                                  e \in 1..Len(Executions)}) <= 1
        /\ \A e \in 1..Len(Executions), f \in 1..Len(Executions) :
               (e < f /\ HadCluster(e)) =>
                   (CreatesOf(f) = {} /\ ~LookupNotFound(f))

(* C21, amended: over the sequential executions of the create-compute cell *)
(* against the same workspace at most one create call returns a cluster    *)
(* for the name config['compute_target']; an execution after one that      *)
(* found or created the cluster issues no create call and its lookup does  *)
(* not signal not-found; a create call is issued again only after          *)
(* executions whose create call raised or whose lookup failed otherwise,   *)
(* which left no cluster.                                                  *)
C21_Amended ==
    notebook = CreateCompute =>
        /\ Cardinality(UNION {{<<e, i>> : i \in ReturnedCreatesOf(e)} :
                                  e \in 1..Len(Executions)}) <= 1
        /\ \A e \in 1..Len(Executions) :
               /\ Cardinality(CreatesOf(e)) <= 1
               /\ \A i \in CreatesOf(e) :
                      Executions[e][i].arg.name = config["compute_target"]
        /\ \A e \in 1..Len(Executions), f \in 1..Len(Executions) :
               (e < f /\ HadCluster(e)) =>
                   (CreatesOf(f) = {} /\ ~LookupNotFound(f))
        /\ \A f \in 1..Len(Executions) :
               CreatesOf(f) # {} =>
                   \A e \in 1..(f - 1) :
                       /\ ~HadCluster(e)
                       /\ \A i \in CreatesOf(e) :
                              Executions[e][i].result = "raised"

(* The first execution created the cluster, the next ones found it. *)
C21_Witness ==
    /\ notebook = CreateCompute
    /\ Len(past) = 2
    /\ ReturnedCreatesOf(1) # {}
    /\ pc = "done"
    /\ \A e \in 2..Len(Executions) :
           /\ CreatesOf(e) = {}
           /\ Executions[e][1].result = "found"

(* The step is the metric cell printing the ending metric. *)
MetricPrinted ==
    /\ Len(calls') = Len(calls) + 1
    /\ calls'[Len(calls')].api = "Run.get_metrics"
    /\ printed' # printed

EndingLine(value) ==
    "Ending " \o config["metric"] \o ": " \o Format2f(value)

(* C22, as claimed: the value printed as the ending metric is the last     *)
(* element of the sequence logged under 'eval_' + config['metric'], and it *)
(* is the evaluation result of the final epoch, the num_train_epochs-th    *)
(* value logged.                                                           *)
C22_Original ==
    [][MetricPrinted =>
          LET logged == Logged(runs[ns["run"]])
          IN  /\ printed'[Len(printed) + 1] = EndingLine(LastLogged(logged))
              /\ Len(logged) = config["training_args"]["num_train_epochs"]
              /\ LastLogged(logged) =
                     logged[config["training_args"]["num_train_epochs"]]
      ]_vars

(* C22, amended: the value printed as the ending metric is the last        *)
(* element of the sequence logged so far under 'eval_' + config['metric'], *)
(* a sequence of at least two and at most num_train_epochs values.  A run  *)
(* that has completed has logged num_train_epochs values, one per epoch,   *)
(* so for a completed run the value printed is the evaluation result of    *)
(* the final epoch; for a run still training it is the result of the       *)
(* latest epoch evaluated.                                                 *)
C22_Amended ==
    /\ [](\A id \in 1..Len(runs) :
            /\ Len(Logged(runs[id]))
                   <= config["training_args"]["num_train_epochs"]
            /\ runs[id].status = "Completed" =>
                   Len(Logged(runs[id])) =
                       config["training_args"]["num_train_epochs"])
    /\ [][MetricPrinted =>
            LET logged == Logged(runs[ns["run"]])
            IN  /\ printed'[Len(printed) + 1] =
                       EndingLine(LastLogged(logged))
                /\ Len(logged) >= 2
                /\ runs[ns["run"]].status = "Completed" =>
                       LastLogged(logged) =
                           logged[config["training_args"]["num_train_epochs"]]
                /\ calls'[Len(calls')].result = runs[ns["run"]].status
       ]_vars

(* The metric of a completed run was printed, the result of the final      *)
(* epoch, which differs from the result of the first.                      *)
C22_Witness ==
    /\ notebook = TrainModel
    /\ ~Raised("4930a3eb")
    /\ \E i \in MetricCalls :
           LET logged == Logged(runs[calls[i].arg])
           IN  /\ calls[i].result = "Completed"
               /\ logged[1] # LastLogged(logged)
               /\ EndingLine(LastLogged(logged)) \in Lines
               /\ EndingLine(logged[1]) \notin Lines

(* What Environment.get(workspace, name) returns: the latest version. *)
LatestDefinition(name) == environments[name][Len(environments[name])]

RegistersOf(name) == {i \in RegisterCalls : calls[i].arg.name = name}

BuildsOf(name) == {i \in BuildCalls : calls[i].arg.name = name}

(* C23, as claimed: within one execution of the prepare-environment        *)
(* notebook the name config['environment'] is registered at most once and  *)
(* built at most once, and the latest version of that name, which a later  *)
(* Environment.get returns, is the one defined by the Dockerfile of        *)
(* config['environment_dockerfile'].                                       *)
C23_Original ==
    (notebook = PrepareEnvironment
        /\ RegistersOf(config["environment"]) # {}) =>
        /\ Cardinality(RegistersOf(config["environment"])) <= 1
        /\ Cardinality(BuildsOf(config["environment"])) <= 1
        /\ LatestDefinition(config["environment"]) =
               FromDockerfile(config["environment_dockerfile"])

(* C23, amended: within one execution of the prepare-environment notebook  *)
(* the name config['environment'] is registered and built once from the    *)
(* Dockerfile of config['environment_dockerfile'] (cells f134ed2c and      *)
(* c02488be) and, when the last cell of the local-build section            *)
(* (54752039) is executed, a second time on the ACR image as base image.   *)
(* The latest version of the name, which a later Environment.get returns,  *)
(* is the one of the last register call: the Dockerfile's until cell       *)
(* 54752039 runs, then the base-image one, a newer version with no         *)
(* Dockerfile.                                                             *)
C23_Amended ==
    (notebook = PrepareEnvironment
        /\ RegistersOf(config["environment"]) # {}) =>
        LET name      == config["environment"]
            registers == RegistersOf(name)
            last      == CHOOSE i \in registers :
                             \A j \in registers : j <= i
            first     == CHOOSE i \in registers :
                             \A j \in registers : i <= j
        IN  /\ RegisterCalls = registers
            /\ BuildCalls = BuildsOf(name)
            /\ Cardinality(registers) <= 2
            /\ Cardinality(BuildsOf(name)) <= 2
            /\ LatestDefinition(name) = calls[last].arg.definition
            /\ calls[last].result = Len(environments[name])
            /\ Cardinality(registers) = 2 =>
                   /\ calls[first].arg.definition =
                          FromDockerfile(config["environment_dockerfile"])
                   /\ calls[first].result < calls[last].result
                   /\ LatestDefinition(name).docker.dockerfile = "None"
                   /\ LatestDefinition(name).docker.base_image =
                          ns["container_name"] \o ":latest"
                   /\ \E b \in BuildsOf(name) :
                          b > last /\ calls[b].arg.version = calls[last].result
            /\ (Cardinality(registers) = 1 /\ ~Bound("container_name")) =>
                   LatestDefinition(name) =
                       FromDockerfile(config["environment_dockerfile"])

(* The whole notebook was executed: the name was registered and built      *)
(* twice, and its latest version is the one on the ACR base image.         *)
C23_Witness ==
    /\ notebook = PrepareEnvironment
    /\ pc = "done"
    /\ Cardinality(RegistersOf(config["environment"])) = 2
    /\ Cardinality(BuildsOf(config["environment"])) = 2
    /\ LatestDefinition(config["environment"]).docker.base_image # "None"

====
